---- MODULE Spec2Model ----
(***************************************************************************)
(* Tabbed settings container of obskit: the registry of settings pages,   *)
(* the active-page lifecycle (activateTab / setActiveTab /                 *)
(* setActiveTabById / display / hide) and the rendered regions (button    *)
(* strip, content area).                                                   *)
(*                                                                         *)
(* Every operation runs to completion on the UI event loop, so each one   *)
(* is a single action.  The points inside an operation where a page hook  *)
(* (onDeactivate, onActivate, display) runs are recorded in `log`, each   *)
(* with a snapshot of the flags at the moment of the invocation.  Hooks   *)
(* are the base-class no-ops and a page's display only fills the region   *)
(* it is handed.                                                           *)
(*                                                                         *)
(* Two further parts follow the same style.  SpecSetting: one setting     *)
(* binding (toggle, slider, text, text area or dropdown), its observer    *)
(* and the control its display creates, with the setter writes and        *)
(* observer calls of each operation recorded in `events`.  SpecPlugin:    *)
(* the example plugin's settings object, built from DEFAULT_SETTINGS and  *)
(* the persisted data and saved by every value setter.                    *)
(* SpecLogger: the Logger class's static registry and global level.       *)
(***************************************************************************)
EXTENDS Integers, Sequences, FiniteSets, TLC

\* ------------------------------------------------------------------ bounds
NumPages == 3
MaxTabs == 3
MaxOptions == 2

\* --------------------------------------------------------------- constants
Null == 0
Pages == 1 .. NumPages

ManagerVariant == "SettingsTabManager"
BuiltinVariant == "PluginSettingsTab"

TabContainerCls == "obskit-settings-tab-container"
ContentContainerCls == "obskit-settings-tab-content"

\* An element reference that has not been created yet (the null field).
NullEl == [exists |-> FALSE, children |-> <<>>]

\* Page names are sequences of characters.  The pool holds two names that
\* differ only by case, a name with a run of whitespace, and the slug of it.
NamePool ==
    << <<"G">>, <<"A", " ", " ", "b">>, <<"g">>, <<"a", "-", "b">> >>

PageName(p) == NamePool[((p - 1) % Len(NamePool)) + 1]

\* ------------------------------------------------------------- SettingsTabPage.id
toLowerCase(c) ==
    CASE c = "G" -> "g"
      [] c = "A" -> "a"
      [] c = "B" -> "b"
      [] OTHER -> c

IsWhitespace(c) == c \in {" ", "\t", "\n"}

RECURSIVE replaceWhitespace(_, _)
replaceWhitespace(s, inRun) ==
    IF s = <<>> THEN <<>>
    ELSE IF IsWhitespace(Head(s))
         THEN (IF inRun THEN <<>> ELSE <<"-">>) \o replaceWhitespace(Tail(s), TRUE)
         ELSE <<Head(s)>> \o replaceWhitespace(Tail(s), FALSE)

slug(name) ==
    replaceWhitespace([i \in 1 .. Len(name) |-> toLowerCase(name[i])], FALSE)

id(p) == slug(PageName(p))

\* Arguments tried for setActiveTabById: every slug and every raw name (a
\* raw name with an upper-case letter or a blank is the id of no page).
IdInputs == {id(p) : p \in Pages} \cup {PageName(p) : p \in Pages}

\* Arguments tried for setActiveTab: one negative index, every position, and
\* the first index past the longest registry.
IndexInputs == -1 .. MaxTabs

\* Arguments tried for addTabs: the empty array, one page, two pages.
Batches ==
    {<<>>} \cup {<<p>> : p \in Pages} \cup {<<p, q>> : p \in Pages, q \in Pages}

\* ------------------------------------------------------------------- state
VARIABLES
    variant,           \* which PluginSettingsTab hosts the registry
    containerEl,       \* children of the container handed to display
    tabs,              \* registry, insertion order
    activeTab,         \* page reference or Null
    isActive,          \* SettingsTabPage.isActive, per page object
    tabContainer,      \* button strip element, or NullEl
    contentContainer,  \* content element, or NullEl
    error,             \* error raised by the last operation, or "none"
    log,               \* hook invocations of the last operation, in order
    lastOp,            \* the last operation and its argument (pages or
                       \* an index in arg, an id in ident)
    lastActivated,     \* page passed to the most recent activateTab
    hiddenSince        \* hide was called after the most recent activateTab

tabVars == <<variant, containerEl, tabs, activeTab, isActive, tabContainer,
             contentContainer, error, log, lastOp, lastActivated, hiddenSince>>

\* One setting binding (a BaseSetting subclass instance) and the control its
\* last display created.
VARIABLES
    kind,              \* the subclass: toggle, slider, text, textarea, dropdown
    options,           \* DropdownSetting.options, in declaration order
    placeholder,       \* TextInputSetting / TextAreaSetting placeholder
    value,             \* the bound value behind the value getter / setter
    onChangeCb,        \* BaseSetting._onChange, or Undefined
    control,           \* the widget created by the most recent display
    events,            \* setter writes and observer calls of the last operation
    settingError,      \* error raised by the last operation, or "none"
    settingOp          \* the last operation, its input and what it returned,
                       \* and the observer the latest onChange displaced

settingVars == <<kind, options, placeholder, value, onChangeCb, control,
                 events, settingError, settingOp>>

\* The example plugin's settings object and the host's persisted data.
VARIABLES
    defaultSettings,   \* the DEFAULT_SETTINGS object
    settings,          \* plugin.settings
    data,              \* what the host's loadData returns
    saveCalls,         \* arguments of the saveData calls of the last operation
    pluginOp           \* the last plugin operation

pluginVars == <<defaultSettings, settings, data, saveCalls, pluginOp>>

\* The static state of the Logger class and the Logger objects constructed
\* so far.
VARIABLES
    loggers,           \* Logger.loggers: name -> Logger object (its position
                       \* in instances)
    instances,         \* every Logger object constructed, in creation order
    globalLogLevel,    \* Logger.globalLogLevel
    loggerOp           \* the last Logger call, its arguments and its result

loggerVars == <<loggers, instances, globalLogLevel, loggerOp>>

vars == <<tabVars, settingVars, pluginVars, loggerVars>>

\* The mutable state the operations work on, as one record.
Cur ==
    [containerEl |-> containerEl, tabs |-> tabs, activeTab |-> activeTab,
     isActive |-> isActive, tabContainer |-> tabContainer,
     contentContainer |-> contentContainer, error |-> "none", log |-> <<>>,
     lastActivated |-> lastActivated, hiddenSince |-> hiddenSince]

ActiveIn(flags) == {p \in Pages : flags[p]}

ActivePages == ActiveIn(isActive)

\* One hook invocation, with the flags as they are when the hook is entered.
Snapshot(hook, page, m) ==
    [hook |-> hook, page |-> page, active |-> ActiveIn(m.isActive),
     activeTab |-> m.activeTab, content |-> m.contentContainer.children]

\* -------------------------------------------------------------- operations
\* Faulty variant: on a rendered manager a button is created for the page.
addTabWithButton(m, tab) ==
    IF m.tabContainer.exists
    THEN [m EXCEPT !.tabs = Append(@, tab),
                   !.tabContainer.children =
                        Append(@, [text |-> PageName(tab), tab |-> tab,
                                   active |-> FALSE])]
    ELSE [m EXCEPT !.tabs = Append(@, tab)]

addTab(m, tab) == [m EXCEPT !.tabs = Append(@, tab)]

\* Faulty variant: the batch is put in front of the registry.
addTabsPrepend(m, ts) == [m EXCEPT !.tabs = ts \o @]

addTabs(m, ts) == [m EXCEPT !.tabs = @ \o ts]

getTabs == tabs

getActiveTab == activeTab

\* Faulty variant: the active class is added but never removed.
updateTabButtonStylesAddOnly(m) ==
    IF ~m.tabContainer.exists THEN m
    ELSE [m EXCEPT !.tabContainer.children =
            [i \in 1 .. Len(@) |->
                IF i <= Len(m.tabs) /\ m.isActive[m.tabs[i]]
                THEN [@[i] EXCEPT !.active = TRUE]
                ELSE @[i]]]

updateTabButtonStyles(m) ==
    IF ~m.tabContainer.exists THEN m
    ELSE [m EXCEPT !.tabContainer.children =
            [i \in 1 .. Len(@) |->
                IF i <= Len(m.tabs)
                THEN [@[i] EXCEPT !.active = m.isActive[m.tabs[i]]]
                ELSE @[i]]]

\* Faulty variant: the content region is not emptied before the page renders.
displayActiveTabContentNoClear(m) ==
    IF ~m.contentContainer.exists \/ m.activeTab = Null THEN m
    ELSE [m EXCEPT !.log = Append(@, Snapshot("display", m.activeTab, m)),
                   !.contentContainer.children = Append(@, m.activeTab)]

displayActiveTabContent(m) ==
    IF ~m.contentContainer.exists \/ m.activeTab = Null THEN m
    ELSE LET cleared == [m EXCEPT !.contentContainer.children = <<>>]
         IN [cleared EXCEPT
                !.log = Append(@, Snapshot("display", cleared.activeTab, cleared)),
                !.contentContainer.children = Append(@, cleared.activeTab)]

\* Faulty variant: onDeactivate is invoked but the flag is left set.
deactivateCurrentHookOnly(m) ==
    IF m.activeTab # Null
    THEN [m EXCEPT !.log = Append(@, Snapshot("onDeactivate", m.activeTab, m))]
    ELSE m

\* Faulty variant: onDeactivate is invoked on every registered page but the
\* current one is the only one whose flag is cleared.
RECURSIVE deactivateEvery(_, _)
deactivateEvery(m, i) ==
    IF i > Len(m.tabs) THEN m
    ELSE deactivateEvery(
            [m EXCEPT !.log = Append(@, Snapshot("onDeactivate", m.tabs[i], m))],
            i + 1)

deactivateCurrentNotifyAll(m) ==
    IF m.activeTab # Null
    THEN deactivateEvery([m EXCEPT !.isActive[m.activeTab] = FALSE], 1)
    ELSE m

deactivateCurrent(m) ==
    IF m.activeTab # Null
    THEN LET off == [m EXCEPT !.isActive[m.activeTab] = FALSE]
         IN [off EXCEPT !.log = Append(@, Snapshot("onDeactivate", m.activeTab, off))]
    ELSE m

activateNew(m, tab) ==
    LET on == [m EXCEPT !.activeTab = tab, !.isActive[tab] = TRUE,
                        !.lastActivated = tab, !.hiddenSince = FALSE]
    IN [on EXCEPT !.log = Append(@, Snapshot("onActivate", tab, on))]

\* Faulty variant: the current page is never deactivated.
activateTabKeepCurrent(m, tab) ==
    displayActiveTabContent(updateTabButtonStyles(activateNew(m, tab)))

\* Faulty variant: the new page is switched on before the current one is
\* switched off.
activateTabActivateFirst(m, tab) ==
    LET on == [m EXCEPT !.isActive[tab] = TRUE, !.lastActivated = tab,
                        !.hiddenSince = FALSE]
        a == [on EXCEPT !.log = Append(@, Snapshot("onActivate", tab, on))]
        d == IF m.activeTab # Null /\ m.activeTab # tab
             THEN LET off == [a EXCEPT !.isActive[m.activeTab] = FALSE]
                  IN [off EXCEPT !.log =
                        Append(@, Snapshot("onDeactivate", m.activeTab, off))]
             ELSE a
    IN displayActiveTabContent(updateTabButtonStyles([d EXCEPT !.activeTab = tab]))

\* Faulty variant: the page is rendered before the flags are switched.
activateTabDisplayFirst(m, tab) ==
    LET shown == displayActiveTabContent([m EXCEPT !.activeTab = tab])
        d == deactivateCurrent([shown EXCEPT !.activeTab = m.activeTab])
    IN updateTabButtonStyles(activateNew(d, tab))

activateTab(m, tab) ==
    displayActiveTabContent(
        updateTabButtonStyles(activateNew(deactivateCurrent(m), tab)))

\* Faulty variant: the index is taken as a one-based position.
setActiveTabOneBased(m, index) ==
    IF index >= 0 /\ index < Len(m.tabs)
    THEN (IF index >= 1 THEN activateTab(m, m.tabs[index]) ELSE m)
    ELSE m

setActiveTab(m, index) ==
    IF index >= 0 /\ index < Len(m.tabs)
    THEN activateTab(m, m.tabs[index + 1])
    ELSE m

\* Array.prototype.find: the first element, in order, among the positions
\* that satisfy the test; Null (undefined) when there is none.
find(ts, hits) ==
    IF hits = {} THEN Null
    ELSE ts[CHOOSE i \in hits : \A j \in hits : i <= j]

\* Faulty variant: the argument is compared with the page name, not its id.
setActiveTabByName(m, ident) ==
    LET tab == find(m.tabs, {i \in 1 .. Len(m.tabs) : PageName(m.tabs[i]) = ident})
    IN IF tab # Null THEN activateTab(m, tab) ELSE m

setActiveTabById(m, ident) ==
    LET tab == find(m.tabs, {i \in 1 .. Len(m.tabs) : id(m.tabs[i]) = ident})
    IN IF tab # Null THEN activateTab(m, tab) ELSE m

\* display, creation of the regions: a strip with one button per page, in
\* registry order, each wired to activate its page, and an empty content
\* region.
\* Faulty variant: the buttons of an earlier display are kept and the new
\* ones are added after them.
buildRegionsKeepButtons(m) ==
    [m EXCEPT
        !.containerEl = <<TabContainerCls, ContentContainerCls>>,
        !.tabContainer =
            [exists |-> TRUE,
             children |-> m.tabContainer.children \o
                [i \in 1 .. Len(m.tabs) |->
                    [text |-> PageName(m.tabs[i]), tab |-> m.tabs[i],
                     active |-> FALSE]]],
        !.contentContainer = [exists |-> TRUE, children |-> <<>>]]

buildRegions(m) ==
    [m EXCEPT
        !.containerEl = <<TabContainerCls, ContentContainerCls>>,
        !.tabContainer =
            [exists |-> TRUE,
             children |-> [i \in 1 .. Len(m.tabs) |->
                [text |-> PageName(m.tabs[i]), tab |-> m.tabs[i],
                 active |-> FALSE]]],
        !.contentContainer = [exists |-> TRUE, children |-> <<>>]]

\* Faulty variant: the last page is activated instead of the first.
renderLastTab(m) ==
    LET built == buildRegions(m)
    IN IF Len(built.tabs) > 0
       THEN activateTab(built, built.tabs[Len(built.tabs)])
       ELSE built

\* The part of display after the empty-registry check and the emptying of
\* the container: build the regions, then activate tabs[0].
render(m) ==
    LET built == buildRegions(m)
    IN IF Len(built.tabs) > 0 THEN activateTab(built, built.tabs[1]) ELSE built

\* SettingsTabManager.display: the check comes before containerEl.empty().
display(m) ==
    IF Len(m.tabs) = 0
    THEN [m EXCEPT !.error = "No tabs have been added to the manager"]
    ELSE render([m EXCEPT !.containerEl = <<>>])

\* The built-in PluginSettingsTab.display: containerEl.empty() comes first.
builtinDisplay(m) ==
    LET emptied == [m EXCEPT !.containerEl = <<>>]
    IN IF Len(emptied.tabs) = 0
       THEN [emptied EXCEPT !.error = "No tabs have been added to the settings tab"]
       ELSE render(emptied)

\* Faulty variant: hide also drops the activeTab reference.
hideClearsActiveTab(m) ==
    LET a == m.activeTab
    IN IF a # Null
       THEN LET off == [m EXCEPT !.isActive[a] = FALSE, !.activeTab = Null,
                                 !.hiddenSince = TRUE]
            IN [off EXCEPT !.log = Append(@, Snapshot("onDeactivate", a, off))]
       ELSE [m EXCEPT !.hiddenSince = TRUE]

hide(m) ==
    LET a == m.activeTab
    IN IF a # Null
       THEN LET off == [m EXCEPT !.isActive[a] = FALSE, !.hiddenSince = TRUE]
            IN [off EXCEPT !.log = Append(@, Snapshot("onDeactivate", a, off))]
       ELSE [m EXCEPT !.hiddenSince = TRUE]

\* -------------------------------------------------------- setting bindings
\* A binding is a BaseSetting subclass instance.  Its value getter / setter
\* read and write `value`; the control is the host widget its display
\* created, whose change event runs the handler display registered on it.
\* `events` records, in order, every setter write and every observer call of
\* an operation, the observer call with the argument it was handed and what
\* the value getter returned at that moment.
Undefined == "undefined"
Callbacks == {"f", "g"}

Kinds == {"toggle", "slider", "text", "textarea", "dropdown"}
TextKinds == {"text", "textarea"}

\* placeholder: string | null
NullPlaceholder == [isNull |-> TRUE, text |-> ""]
Placeholders ==
    {NullPlaceholder, [isNull |-> FALSE, text |-> ""], [isNull |-> FALSE, text |-> "hint"]}

\* `if (this.placeholder)`: null and the empty string are both falsy.
Truthy(p) == ~p.isNull /\ p.text # ""

\* minimum, maximum and step of the example's RefreshIntervalSetting.
SliderLimits == [minimum |-> 5, maximum |-> 300, step |-> 5]
NoLimits == [minimum |-> 0, maximum |-> 0, step |-> 0]

OptionKeys == {"a", "b"}
OptionValues == {10, 20}
StaleValues == {30}
UnknownKey == "zz"
OptionPool == [key : OptionKeys, label : {"L"}, value : OptionValues]
OptionLists == UNION {[1 .. n -> OptionPool] : n \in 0 .. MaxOptions}

\* Values the bound storage may hold when the binding is created.
ValuesOf(k) ==
    CASE k = "toggle" -> BOOLEAN
      [] k = "slider" -> {30, 35}
      [] k = "dropdown" -> OptionValues \cup StaleValues
      [] OTHER -> {"", "abc"}

\* What the control may report in a change event: a boolean, a number, the
\* edited text, or the key of the chosen entry.
ReportsOf(k) ==
    CASE k = "toggle" -> BOOLEAN
      [] k = "slider" -> {5, 35, 300}
      [] k = "dropdown" -> OptionKeys \cup {UnknownKey}
      [] OTHER -> {"", "abc", "xyz"}

BlankShown(k) ==
    CASE k = "toggle" -> FALSE
      [] k = "slider" -> 0
      [] OTHER -> ""

NoControl(k) ==
    [exists |-> FALSE, shown |-> BlankShown(k), placeholderSet |-> FALSE,
     placeholderText |-> "", limits |-> NoLimits, dynamicTooltip |-> FALSE,
     added |-> <<>>]

CurSetting ==
    [kind |-> kind, options |-> options, placeholder |-> placeholder,
     value |-> value, onChange |-> onChangeCb, control |-> control,
     events |-> <<>>, error |-> "none", returned |-> "nothing"]

get_value(b) == b.value

set_value(b, val) ==
    [b EXCEPT !.value = val,
              !.events = Append(@, [ev |-> "set", cb |-> Undefined,
                                    arg |-> val, seen |-> val])]

\* Faulty variant: an already registered observer is kept.
onChangeKeepFirst(b, callback) ==
    [b EXCEPT !.onChange = IF @ = Undefined THEN callback ELSE @,
              !.returned = "this"]

onChange(b, callback) ==
    [b EXCEPT !.onChange = callback, !.returned = "this"]

\* this._onChange?.(this.value)
notify(b) ==
    IF b.onChange = Undefined THEN b
    ELSE [b EXCEPT !.events = Append(@, [ev |-> "observer", cb |-> b.onChange,
                                         arg |-> get_value(b),
                                         seen |-> get_value(b)])]

\* Faulty variant: the observer is handed the reported value before the
\* write.
commitNotifyFirst(b, val) ==
    set_value(
        IF b.onChange = Undefined THEN b
        ELSE [b EXCEPT !.events = Append(@, [ev |-> "observer", cb |-> b.onChange,
                                             arg |-> val, seen |-> get_value(b)])],
        val)

\* The change handler of toggle, slider, text and text area:
\* this.value = value; this._onChange?.(this.value)
commit(b, val) == notify(set_value(b, val))

\* Array.prototype.find over the options: the first option, in order, among
\* the positions that satisfy the test, or nothing.
findOption(opts, hits) ==
    IF hits = {}
    THEN [defined |-> FALSE, option |-> [key |-> "", label |-> "", value |-> 0]]
    ELSE [defined |-> TRUE, option |-> opts[CHOOSE i \in hits : \A j \in hits : i <= j]]

\* Faulty variant: the last option carrying the value is used.
getKeyForValueLast(opts, val) ==
    LET hits == {i \in 1 .. Len(opts) : opts[i].value = val}
    IN IF hits # {} THEN opts[CHOOSE i \in hits : \A j \in hits : i >= j].key
       ELSE IF Len(opts) >= 1 THEN opts[1].key
       ELSE ""

getKeyForValue(opts, val) ==
    LET option == findOption(opts, {i \in 1 .. Len(opts) : opts[i].value = val})
    IN IF option.defined THEN option.option.key
       ELSE IF Len(opts) >= 1 THEN opts[1].key
       ELSE ""

\* Faulty variant: any known key resolves to the first option's value.
getValueForKeyFirst(opts, key) ==
    LET option == findOption(opts, {i \in 1 .. Len(opts) : opts[i].key = key})
    IN IF ~option.defined
       THEN [threw |-> TRUE, value |-> 0]
       ELSE [threw |-> FALSE, value |-> opts[1].value]

\* The result, or the fact that the lookup threw.
getValueForKey(opts, key) ==
    LET option == findOption(opts, {i \in 1 .. Len(opts) : opts[i].key = key})
    IN IF ~option.defined
       THEN [threw |-> TRUE, value |-> 0]
       ELSE [threw |-> FALSE, value |-> option.option.value]

\* Faulty variant: an unknown key falls back to the first option.
dropdownChangeFallback(b, key) ==
    LET r == getValueForKey(b.options, key)
    IN IF ~r.threw THEN commit(b, r.value)
       ELSE IF Len(b.options) >= 1 THEN commit(b, b.options[1].value)
       ELSE [b EXCEPT !.error = "No option found for key"]

\* The change handler of the dropdown:
\* this.value = this.getValueForKey(key); this._onChange?.(this.value)
dropdownChange(b, key) ==
    LET r == getValueForKey(b.options, key)
    IN IF r.threw
       THEN [b EXCEPT !.error = "No option found for key"]
       ELSE commit(b, r.value)

toggleDisplay(b) ==
    [b EXCEPT !.control = [NoControl(b.kind) EXCEPT !.exists = TRUE,
                                                    !.shown = get_value(b)]]

sliderDisplay(b) ==
    [b EXCEPT !.control = [NoControl(b.kind) EXCEPT !.exists = TRUE,
                                                    !.limits = SliderLimits,
                                                    !.dynamicTooltip = TRUE,
                                                    !.shown = get_value(b)]]

textDisplay(b) ==
    LET shown == [NoControl(b.kind) EXCEPT !.exists = TRUE, !.shown = get_value(b)]
    IN [b EXCEPT !.control =
            IF Truthy(b.placeholder)
            THEN [shown EXCEPT !.placeholderSet = TRUE,
                               !.placeholderText = b.placeholder.text]
            ELSE shown]

\* Faulty variant: an empty bound value is filled with the placeholder.
textAreaDisplayFillsValue(b) ==
    LET filled == IF get_value(b) = "" /\ Truthy(b.placeholder)
                  THEN set_value(b, b.placeholder.text) ELSE b
    IN textDisplay(filled)

textAreaDisplay(b) ==
    LET shown == [NoControl(b.kind) EXCEPT !.exists = TRUE, !.shown = get_value(b)]
    IN [b EXCEPT !.control =
            IF Truthy(b.placeholder)
            THEN [shown EXCEPT !.placeholderSet = TRUE,
                               !.placeholderText = b.placeholder.text]
            ELSE shown]

\* Faulty variant: the fallback selection is written back to the bound value.
dropdownDisplayWritesBack(b) ==
    LET key == getKeyForValue(b.options, get_value(b))
        r == getValueForKey(b.options, key)
        synced == IF ~r.threw /\ r.value # get_value(b)
                  THEN set_value(b, r.value) ELSE b
    IN [synced EXCEPT !.control =
            [NoControl(b.kind) EXCEPT
                !.exists = TRUE,
                !.added = [i \in 1 .. Len(b.options) |->
                              [key |-> b.options[i].key, label |-> b.options[i].label]],
                !.shown = key]]

dropdownDisplay(b) ==
    [b EXCEPT !.control =
        [NoControl(b.kind) EXCEPT
            !.exists = TRUE,
            !.added = [i \in 1 .. Len(b.options) |->
                          [key |-> b.options[i].key, label |-> b.options[i].label]],
            !.shown = getKeyForValue(b.options, get_value(b))]]

\* display of the binding's subclass.
settingDisplay(b) ==
    CASE b.kind = "toggle" -> toggleDisplay(b)
      [] b.kind = "slider" -> sliderDisplay(b)
      [] b.kind = "text" -> textDisplay(b)
      [] b.kind = "textarea" -> textAreaDisplay(b)
      [] b.kind = "dropdown" -> dropdownDisplay(b)

\* The handler display registered on the control.
controlChange(b, x) ==
    IF b.kind = "dropdown" THEN dropdownChange(b, x) ELSE commit(b, x)

SettingIdle ==
    /\ kind = "none"
    /\ options = <<>>
    /\ placeholder = NullPlaceholder
    /\ value = 0
    /\ onChangeCb = Undefined
    /\ control = NoControl("none")
    /\ events = <<>>
    /\ settingError = "none"
    /\ settingOp = [op |-> "new", cb |-> Undefined, replaced |-> Undefined,
                    input |-> "", returned |-> "nothing"]

\* ------------------------------------------------------ settings persistence
\* The example plugin: plugin.settings is built by loadSettings from
\* DEFAULT_SETTINGS and the host's persisted data, and every value setter of
\* the example's bindings writes one field and calls saveSettings.
DEFAULT_SETTINGS ==
    [enableFeature |-> TRUE, userName |-> "", refreshInterval |-> 30,
     logLevel |-> 20, theme |-> "default", autoSave |-> FALSE, maxItems |-> 100]

EmptyObject == [k \in {} |-> 0]

\* Object.assign with one source: every own key of the source is written to
\* the target, the target's other keys stay.
assign(target, source) ==
    [k \in DOMAIN target \cup DOMAIN source |->
        IF k \in DOMAIN source THEN source[k] ELSE target[k]]

\* What loadData may return: nothing (no data file yet), or an object that
\* holds some of the keys, possibly one the defaults do not know.
NoData == [present |-> FALSE, object |-> EmptyObject]
PersistedObjects ==
    {assign(assign(a, b), c) :
        a \in {EmptyObject, [refreshInterval |-> 30], [refreshInterval |-> 60]},
        b \in {EmptyObject, [theme |-> "dark"]},
        c \in {EmptyObject, [legacy |-> 1]}}

\* Fields the model edits, with the values a control may report for each.
RefreshReports == {5, 60}
ThemeReports == {"dark", "light"}

CurPlugin ==
    [defaultSettings |-> defaultSettings, settings |-> settings, data |-> data,
     saveCalls |-> <<>>]

\* Faulty variant: the defaults are applied over the persisted object.
loadSettingsDefaultsWin(p) ==
    LET loaded == IF p.data.present THEN p.data.object ELSE EmptyObject
    IN [p EXCEPT !.settings = assign(assign(EmptyObject, loaded), p.defaultSettings)]

\* Object.assign({}, DEFAULT_SETTINGS, await this.loadData()); a null source
\* is skipped.
loadSettings(p) ==
    LET withDefaults == assign(EmptyObject, p.defaultSettings)
    IN [p EXCEPT !.settings =
            IF p.data.present THEN assign(withDefaults, p.data.object)
            ELSE withDefaults]

\* saveData(this.settings): the host stores the object it is handed.
saveSettings(p) ==
    [p EXCEPT !.saveCalls = Append(@, p.settings),
              !.data = [present |-> TRUE, object |-> p.settings]]

\* set value(val) of RefreshIntervalSetting.
setRefreshInterval(p, val) ==
    saveSettings([p EXCEPT !.settings = [@ EXCEPT !.refreshInterval = val]])

\* set value(val) of ThemeSetting.
setTheme(p, val) ==
    saveSettings([p EXCEPT !.settings = [@ EXCEPT !.theme = val]])

\* set value(val) of EnableFeatureSetting.
setEnableFeature(p, val) ==
    saveSettings([p EXCEPT !.settings = [@ EXCEPT !.enableFeature = val]])

\* The Reset button of the Advanced page.
resetSettings(p) ==
    saveSettings([p EXCEPT !.settings = assign(EmptyObject, p.defaultSettings)])

PluginIdle ==
    /\ defaultSettings = DEFAULT_SETTINGS
    /\ settings = EmptyObject
    /\ data = NoData
    /\ saveCalls = <<>>
    /\ pluginOp = [op |-> "new", field |-> "none"]

\* ------------------------------------------------------------------ logger
LogLevel == [DEBUG |-> 30, INFO |-> 20, WARN |-> 10, ERROR |-> 0, SILENT |-> -1]
LogLevels == {LogLevel[l] : l \in DOMAIN LogLevel}
LoggerNames == {"main", "settings", "ui"}

\* An empty Map.
EmptyMap == [n \in {} |-> 0]

CurLogger ==
    [loggers |-> loggers, instances |-> instances,
     globalLogLevel |-> globalLogLevel, returned |-> 0]

\* new Logger(name, logLevel)
NewLogger(name, logLevel) == [name |-> name, logLevel |-> logLevel]

\* Map.set on a name the map does not hold yet.
MapSet(map, name, val) ==
    [n \in DOMAIN map \cup {name} |-> IF n = name THEN val ELSE map[n]]

\* The result is the position of the returned object in instances.
getLogger(g, name) ==
    IF name \in DOMAIN g.loggers
    THEN [g EXCEPT !.returned = g.loggers[name]]
    ELSE LET created == Append(g.instances, NewLogger(name, g.globalLogLevel))
         IN [g EXCEPT !.instances = created,
                      !.loggers = MapSet(@, name, Len(created)),
                      !.returned = Len(created)]

\* Faulty variant: only loggers created later get the new level.
setGlobalLogLevelNewOnly(g, level) == [g EXCEPT !.globalLogLevel = level]

setGlobalLogLevel(g, level) ==
    [g EXCEPT
        !.globalLogLevel = level,
        !.instances =
            [i \in 1 .. Len(@) |->
                IF \E n \in DOMAIN g.loggers : g.loggers[n] = i
                THEN [@[i] EXCEPT !.logLevel = level]
                ELSE @[i]]]

getGlobalLogLevel(g) == [g EXCEPT !.returned = g.globalLogLevel]

\* The class as loaded: no logger, global level ERROR.
LoggerInit ==
    /\ loggers = EmptyMap
    /\ instances = <<>>
    /\ globalLogLevel = LogLevel.ERROR
    /\ loggerOp = [op |-> "new", name |-> "", level |-> 0, returned |-> 0]

\* ----------------------------------------------------------------- actions
Apply(r) ==
    /\ containerEl' = r.containerEl
    /\ tabs' = r.tabs
    /\ activeTab' = r.activeTab
    /\ isActive' = r.isActive
    /\ tabContainer' = r.tabContainer
    /\ contentContainer' = r.contentContainer
    /\ error' = r.error
    /\ log' = r.log
    /\ lastActivated' = r.lastActivated
    /\ hiddenSince' = r.hiddenSince
    /\ UNCHANGED <<variant, settingVars, pluginVars, loggerVars>>

InitFor(v) ==
    /\ variant = v
    /\ containerEl = <<"stale">>
    /\ tabs = <<>>
    /\ activeTab = Null
    /\ isActive = [p \in Pages |-> FALSE]
    /\ tabContainer = NullEl
    /\ contentContainer = NullEl
    /\ error = "none"
    /\ log = <<>>
    /\ lastOp = [op |-> "new", arg |-> <<>>, ident |-> <<>>]
    /\ lastActivated = Null
    /\ hiddenSince = FALSE

\* A PluginSettingsTab that delegates to a SettingsTabManager.
Init == InitFor(ManagerVariant) /\ SettingIdle /\ PluginIdle /\ LoggerInit

\* A PluginSettingsTab with the built-in registry.
InitBuiltin == InitFor(BuiltinVariant) /\ SettingIdle /\ PluginIdle /\ LoggerInit

AddTab ==
    \E p \in Pages :
        /\ Len(tabs) < MaxTabs
        /\ Apply(addTab(Cur, p))
        /\ lastOp' = [op |-> "addTab", arg |-> <<p>>, ident |-> <<>>]

AddTabs ==
    \E ts \in Batches :
        /\ Len(tabs) + Len(ts) <= MaxTabs
        /\ Apply(addTabs(Cur, ts))
        /\ lastOp' = [op |-> "addTabs", arg |-> ts, ident |-> <<>>]

SetActiveTab ==
    \E index \in IndexInputs :
        /\ Apply(setActiveTab(Cur, index))
        /\ lastOp' = [op |-> "setActiveTab", arg |-> <<index>>, ident |-> <<>>]

SetActiveTabById ==
    \E ident \in IdInputs :
        /\ Apply(setActiveTabById(Cur, ident))
        /\ lastOp' = [op |-> "setActiveTabById", arg |-> <<>>, ident |-> ident]

\* A click on the i-th rendered button runs the listener display attached to
\* it, which activates the page the button was created for.
Click ==
    \E i \in 1 .. Len(tabContainer.children) :
        /\ Apply(activateTab(Cur, tabContainer.children[i].tab))
        /\ lastOp' = [op |-> "click", arg |-> <<i>>, ident |-> <<>>]

Display ==
    /\ Apply(IF variant = ManagerVariant THEN display(Cur) ELSE builtinDisplay(Cur))
    /\ lastOp' = [op |-> "display", arg |-> <<>>, ident |-> <<>>]

Hide ==
    /\ Apply(hide(Cur))
    /\ lastOp' = [op |-> "hide", arg |-> <<>>, ident |-> <<>>]

Next ==
    \/ AddTab
    \/ AddTabs
    \/ SetActiveTab
    \/ SetActiveTabById
    \/ Click
    \/ Display
    \/ Hide

Spec == Init /\ [][Next]_vars

SpecBuiltin == InitBuiltin /\ [][Next]_vars

\* ------------------------------------------- actions of a setting binding
SettingApply(r) ==
    /\ value' = r.value
    /\ onChangeCb' = r.onChange
    /\ control' = r.control
    /\ events' = r.events
    /\ settingError' = r.error
    /\ UNCHANGED <<kind, options, placeholder, tabVars, pluginVars, loggerVars>>

\* A binding of any subclass, constructed and not yet displayed.
SettingNew ==
    \E k \in Kinds :
        /\ kind = k
        /\ options \in (IF k = "dropdown" THEN OptionLists ELSE {<<>>})
        /\ placeholder \in (IF k \in TextKinds THEN Placeholders ELSE {NullPlaceholder})
        /\ value \in ValuesOf(k)
        /\ onChangeCb = Undefined
        /\ control = NoControl(k)
        /\ events = <<>>
        /\ settingError = "none"
        /\ settingOp = [op |-> "new", cb |-> Undefined, replaced |-> Undefined,
                        input |-> BlankShown(k), returned |-> "nothing"]

InitSetting == InitFor(ManagerVariant) /\ SettingNew /\ PluginIdle /\ LoggerInit

OnChange ==
    \E callback \in Callbacks :
        LET r == onChange(CurSetting, callback)
        IN /\ SettingApply(r)
           /\ settingOp' = [op |-> "onChange", cb |-> callback,
                            replaced |-> onChangeCb, input |-> BlankShown(kind), returned |-> r.returned]

SettingDisplay ==
    LET r == settingDisplay(CurSetting)
    IN /\ SettingApply(r)
       /\ settingOp' = [op |-> "display", cb |-> Undefined,
                        replaced |-> settingOp.replaced, input |-> BlankShown(kind), returned |-> "control"]

\* The user edits the displayed control, which reports x to the handler.
ControlChange ==
    /\ control.exists
    /\ \E x \in ReportsOf(kind) :
        LET r == controlChange(CurSetting, x)
        IN /\ SettingApply(r)
           /\ settingOp' = [op |-> "change", cb |-> Undefined,
                            replaced |-> settingOp.replaced, input |-> x,
                            returned |-> "nothing"]

NextSetting ==
    \/ OnChange
    \/ SettingDisplay
    \/ ControlChange

SpecSetting == InitSetting /\ [][NextSetting]_vars

\* ------------------------------------------------ actions of the plugin
PluginApply(r) ==
    /\ defaultSettings' = r.defaultSettings
    /\ settings' = r.settings
    /\ data' = r.data
    /\ saveCalls' = r.saveCalls
    /\ UNCHANGED <<tabVars, settingVars, loggerVars>>

\* A plugin instance before onload, over whatever the host has persisted.
PluginNew ==
    /\ defaultSettings = DEFAULT_SETTINGS
    /\ settings = EmptyObject
    /\ data \in {NoData} \cup {[present |-> TRUE, object |-> o] : o \in PersistedObjects}
    /\ saveCalls = <<>>
    /\ pluginOp = [op |-> "new", field |-> "none"]

InitPlugin == InitFor(ManagerVariant) /\ SettingIdle /\ PluginNew /\ LoggerInit

Loaded == pluginOp.op # "new"

\* onload, also of a later instance of the plugin over the saved data.
LoadSettings ==
    /\ PluginApply(loadSettings(CurPlugin))
    /\ pluginOp' = [op |-> "loadSettings", field |-> "none"]

SetRefreshInterval ==
    /\ Loaded
    /\ \E val \in RefreshReports :
        /\ PluginApply(setRefreshInterval(CurPlugin, val))
        /\ pluginOp' = [op |-> "set", field |-> "refreshInterval"]

SetTheme ==
    /\ Loaded
    /\ \E val \in ThemeReports :
        /\ PluginApply(setTheme(CurPlugin, val))
        /\ pluginOp' = [op |-> "set", field |-> "theme"]

SetEnableFeature ==
    /\ Loaded
    /\ \E val \in BOOLEAN :
        /\ PluginApply(setEnableFeature(CurPlugin, val))
        /\ pluginOp' = [op |-> "set", field |-> "enableFeature"]

ResetSettings ==
    /\ Loaded
    /\ PluginApply(resetSettings(CurPlugin))
    /\ pluginOp' = [op |-> "reset", field |-> "none"]

NextPlugin ==
    \/ LoadSettings
    \/ SetRefreshInterval
    \/ SetTheme
    \/ SetEnableFeature
    \/ ResetSettings

SpecPlugin == InitPlugin /\ [][NextPlugin]_vars

\* ------------------------------------------------- actions of the logger
LoggerApply(r) ==
    /\ loggers' = r.loggers
    /\ instances' = r.instances
    /\ globalLogLevel' = r.globalLogLevel
    /\ UNCHANGED <<tabVars, settingVars, pluginVars>>

InitLogger == InitFor(ManagerVariant) /\ SettingIdle /\ PluginIdle /\ LoggerInit

GetLogger ==
    \E name \in LoggerNames :
        LET r == getLogger(CurLogger, name)
        IN /\ LoggerApply(r)
           /\ loggerOp' = [op |-> "getLogger", name |-> name, level |-> 0,
                           returned |-> r.returned]

SetGlobalLogLevel ==
    \E level \in LogLevels :
        /\ LoggerApply(setGlobalLogLevel(CurLogger, level))
        /\ loggerOp' = [op |-> "setGlobalLogLevel", name |-> "", level |-> level,
                        returned |-> 0]

GetGlobalLogLevel ==
    LET r == getGlobalLogLevel(CurLogger)
    IN /\ LoggerApply(r)
       /\ loggerOp' = [op |-> "getGlobalLogLevel", name |-> "", level |-> 0,
                       returned |-> r.returned]

NextLogger ==
    \/ GetLogger
    \/ SetGlobalLogLevel
    \/ GetGlobalLogLevel

SpecLogger == InitLogger /\ [][NextLogger]_vars

\* ------------------------------------------------- vocabulary of the claims
\* Operations that may reach activateTab.
ActivationCalls == {"setActiveTab", "setActiveTabById", "click"}

ActivationOps == ActivationCalls \cup {"display"}

\* The page an operation asks to activate, from its argument, the registry
\* and the rendered buttons alone; Null when the argument selects no page.
RequestedBy(o, ts, strip) ==
    CASE o.op = "setActiveTab" ->
            IF o.arg[1] >= 0 /\ o.arg[1] < Len(ts) THEN ts[o.arg[1] + 1] ELSE Null
      [] o.op = "setActiveTabById" ->
            find(ts, {i \in 1 .. Len(ts) : id(ts[i]) = o.ident})
      [] o.op = "click" -> strip.children[o.arg[1]].tab
      [] o.op = "display" -> IF Len(ts) > 0 THEN ts[1] ELSE Null
      [] OTHER -> Null

\* The page the last operation asked to activate.
Requested == RequestedBy(lastOp, tabs, tabContainer)

HookIndexes(l, hook, page) ==
    {i \in 1 .. Len(l) : l[i].hook = hook /\ l[i].page = page}

HookCount(l, hook) == Cardinality({i \in 1 .. Len(l) : l[i].hook = hook})

\* ---------------------------------------------------------------------- C1
\* C1 (as amended): over setActiveTab / setActiveTabById / button-click
\* calls on a non-empty registry, once a call has activated a page exactly
\* one page has isActive = true after each call and it is the page most
\* recently passed to activateTab; while no call has activated a page yet,
\* no page is active.
C1_SingleActivePage ==
    (lastOp.op \in ActivationCalls /\ Len(tabs) > 0 /\ ~hiddenSince) =>
        IF lastActivated = Null
        THEN ActivePages = {}
        ELSE ActivePages = {lastActivated}

C1_Witness ==
    /\ lastOp.op \in ActivationCalls
    /\ ~hiddenSince
    /\ lastActivated # Null
    /\ ActivePages = {lastActivated}
    /\ \E i \in 1 .. Len(log) :
          log[i].hook = "onDeactivate" /\ log[i].page # lastActivated

\* C1 as written: exactly one page is active after each of these calls.
C1_Original ==
    (lastOp.op \in ActivationCalls /\ Len(tabs) > 0 /\ ~hiddenSince) =>
        /\ Cardinality(ActivePages) = 1
        /\ ActivePages = {lastActivated}

\* ---------------------------------------------------------------------- C2
\* C2: at most one page has isActive = true in every state, and also at
\* every point inside an operation where onDeactivate, onActivate or a
\* page's display is entered.
C2_AtMostOneActive ==
    /\ Cardinality(ActivePages) <= 1
    /\ \A i \in 1 .. Len(log) : Cardinality(log[i].active) <= 1

C2_Witness ==
    \E i, j, k \in 1 .. Len(log) :
        /\ log[i].hook = "onDeactivate"
        /\ log[j].hook = "onActivate"
        /\ log[i].page # log[j].page
        /\ log[k].hook = "display"
        /\ ActivePages = {log[j].page}

\* ---------------------------------------------------------------------- C3
\* C3: after display completes on a non-empty registry the first page is
\* active, no other page is, getActiveTab() is the first page and the
\* content region holds the first page's content only.
C3_FirstPageDefault ==
    (lastOp.op = "display" /\ error = "none") =>
        /\ Len(tabs) >= 1
        /\ isActive[tabs[1]]
        /\ \A p \in Pages : p # tabs[1] => ~isActive[p]
        /\ getActiveTab = tabs[1]
        /\ contentContainer.exists
        /\ contentContainer.children = <<tabs[1]>>

C3_Witness ==
    /\ lastOp.op = "display"
    /\ error = "none"
    /\ Len(tabs) = 3
    /\ tabs[2] # tabs[1]
    /\ tabs[3] # tabs[1]
    /\ isActive[tabs[1]]
    /\ \E i \in 1 .. Len(log) : log[i].hook = "onDeactivate" /\ log[i].page # tabs[1]

\* ---------------------------------------------------------------------- C4
\* C4: display on an empty registry raises the configuration error and
\* changes nothing: container, regions, flags and activeTab stay as they
\* were and no hook runs.
C4_EmptyRegistryGuard ==
    [][(lastOp'.op = "display" /\ Len(tabs) = 0) =>
            /\ error' # "none"
            /\ log' = <<>>
            /\ UNCHANGED <<containerEl, tabContainer, contentContainer,
                           isActive, activeTab>>]_vars

\* ---------------------------------------------------------------------- C5
\* C5: activating B while a different page A is active runs A.onDeactivate
\* before B.onActivate, and whenever B.display is entered A.isActive is
\* false, B.isActive is true and getActiveTab() is B.
C5_LifecycleOrdering ==
    [][\A B \in Pages :
        (lastOp'.op \in ActivationOps /\ error' = "none" /\ B = RequestedBy(lastOp', tabs', tabContainer')) =>
            \A A \in ActivePages \ {B} :
                /\ \E i \in HookIndexes(log', "onDeactivate", A) :
                      \E j \in HookIndexes(log', "onActivate", B) : i < j
                /\ contentContainer'.exists =>
                      HookIndexes(log', "display", B) # {}
                /\ \A k \in HookIndexes(log', "display", B) :
                      /\ A \notin log'[k].active
                      /\ B \in log'[k].active
                      /\ log'[k].activeTab = B]_vars

C5_Witness ==
    \E A, B \in Pages :
        /\ A # B
        /\ lastOp.op \in ActivationCalls
        /\ Requested = B
        /\ Len(log) = 3
        /\ log[1].hook = "onDeactivate" /\ log[1].page = A
        /\ log[2].hook = "onActivate" /\ log[2].page = B
        /\ log[3].hook = "display" /\ log[3].page = B
        /\ log[3].active = {B}

\* ---------------------------------------------------------------------- C6
\* C6: activating the page that is already active never sets its isActive
\* to false and never invokes its onDeactivate.
C6_ReactivationSkipsDeactivate ==
    [][\A B \in Pages :
        (isActive[B] /\ activeTab = B /\ lastOp'.op \in ActivationOps
            /\ error' = "none" /\ B = RequestedBy(lastOp', tabs', tabContainer')) =>
            \A i \in 1 .. Len(log') :
                /\ log'[i].hook # "onDeactivate"
                /\ B \in log'[i].active]_vars

\* ---------------------------------------------------------------------- C7
\* C7 (as amended): every activation made once the content region exists
\* clears the region and invokes the page's display exactly once, leaving
\* only that page's content; an activation made before the first display
\* invokes no page display.
C7_RerenderOnActivation ==
    (lastOp.op \in ActivationOps /\ error = "none" /\ Requested # Null) =>
        IF contentContainer.exists
        THEN /\ HookCount(log, "display") = 1
             /\ \A k \in HookIndexes(log, "display", Requested) :
                   log[k].content = <<>>
             /\ HookIndexes(log, "display", Requested) # {}
             /\ contentContainer.children = <<Requested>>
        ELSE HookCount(log, "display") = 0

C7_Witness ==
    /\ lastOp.op = "click"
    /\ contentContainer.children = <<Requested>>
    /\ HookIndexes(log, "onDeactivate", Requested) # {}
    /\ HookIndexes(log, "display", Requested) # {}

\* C7 as written: every activation invokes the page's display exactly once
\* and leaves the page's content in the content region.
C7_Original ==
    (lastOp.op \in ActivationOps /\ error = "none" /\ Requested # Null) =>
        /\ HookCount(log, "display") = 1
        /\ contentContainer.children = <<Requested>>

\* ---------------------------------------------------------------------- C8
\* C8: setActiveTab(index) with index outside [0, count) changes neither
\* activeTab, nor any flag, nor the rendered regions and runs no hook; with
\* index inside the range it activates the page at that position.
C8_SetActiveTabByIndex ==
    [][lastOp'.op = "setActiveTab" =>
        LET index == lastOp'.arg[1]
        IN IF index < 0 \/ index >= Len(tabs)
           THEN /\ log' = <<>>
                /\ UNCHANGED <<activeTab, isActive, tabContainer, contentContainer>>
           ELSE /\ activeTab' = tabs[index + 1]
                /\ ActivePages' = {tabs[index + 1]}
                /\ HookCount(log', "onActivate") = 1
                /\ HookIndexes(log', "onActivate", tabs[index + 1]) # {}]_vars

C8_Witness ==
    /\ lastOp.op = "setActiveTab"
    /\ lastOp.arg[1] >= Len(tabs)
    /\ Len(tabs) > 0
    /\ ActivePages # {}
    /\ tabContainer.exists
    /\ log = <<>>

\* ---------------------------------------------------------------------- C9
\* C9: setActiveTabById(id) with an id no registered page has changes
\* nothing and runs no hook; otherwise it activates a registered page whose
\* id equals the argument.
C9_SetActiveTabById ==
    [][lastOp'.op = "setActiveTabById" =>
        LET ident == lastOp'.ident
        IN IF \A i \in 1 .. Len(tabs) : id(tabs[i]) # ident
           THEN /\ log' = <<>>
                /\ UNCHANGED <<activeTab, isActive, tabContainer, contentContainer>>
           ELSE /\ activeTab' # Null
                /\ \E i \in 1 .. Len(tabs) : tabs[i] = activeTab'
                /\ id(activeTab') = ident
                /\ ActivePages' = {activeTab'}
                /\ HookCount(log', "onActivate") = 1
                /\ HookIndexes(log', "onActivate", activeTab') # {}]_vars

C9_Witness ==
    /\ lastOp.op = "setActiveTabById"
    /\ activeTab # Null
    /\ id(activeTab) = lastOp.ident
    /\ PageName(activeTab) # lastOp.ident
    /\ ActivePages = {activeTab}
    /\ \E i \in 1 .. Len(tabs) : tabs[i] # activeTab /\ id(tabs[i]) = lastOp.ident

\* --------------------------------------------------------------------- C10
\* C10: hide deactivates the active page and invokes its onDeactivate; when
\* no page is active nothing happens; the rendered regions are untouched
\* and afterwards no page is active.
C10_Hide ==
    [][lastOp'.op = "hide" =>
        /\ IF ActivePages # {}
           THEN \A p \in ActivePages :
                    /\ ~isActive'[p]
                    /\ HookIndexes(log', "onDeactivate", p) # {}
           ELSE /\ log' = <<>>
                /\ UNCHANGED <<isActive, activeTab>>
        /\ UNCHANGED <<tabContainer, contentContainer>>
        /\ ActivePages' = {}]_vars

\* --------------------------------------------------------------------- C11
\* C11: a switch from the active page A to a different page B invokes
\* A.onDeactivate once and B.onActivate once, invokes no hook on any other
\* page, leaves A inactive and B active, and leaves B's content alone in the
\* content area (when the manager has been displayed, so that there is one).
C11_SwitchHooks ==
    [][\A B \in Pages :
        (lastOp'.op \in ActivationOps /\ error' = "none"
            /\ B = RequestedBy(lastOp', tabs', tabContainer')) =>
            \A A \in ActivePages \ {B} :
                /\ Cardinality(HookIndexes(log', "onDeactivate", A)) = 1
                /\ Cardinality(HookIndexes(log', "onActivate", B)) = 1
                /\ HookCount(log', "onDeactivate") = 1
                /\ HookCount(log', "onActivate") = 1
                /\ \A i \in 1 .. Len(log') : log'[i].page \in {A, B}
                /\ ~isActive'[A]
                /\ isActive'[B]
                /\ contentContainer'.exists =>
                      contentContainer'.children = <<B>>]_vars

\* The statement without the proviso: every switch leaves B's content in the
\* content area.  A switch made by setActiveTab before the first display
\* leaves no content area at all.
C11_Original ==
    [][\A B \in Pages :
        (lastOp'.op \in ActivationOps /\ error' = "none"
            /\ B = RequestedBy(lastOp', tabs', tabContainer')
            /\ ActivePages \ {B} # {}) =>
            /\ contentContainer'.exists
            /\ contentContainer'.children = <<B>>]_vars

C11_Witness ==
    /\ Len(tabs) = 3
    /\ Cardinality({tabs[i] : i \in 1 .. 3}) = 3
    /\ lastOp.op = "setActiveTabById"
    /\ Requested = tabs[3]
    /\ isActive[tabs[3]]
    /\ Len(tabContainer.children) = 3
    /\ contentContainer.children = <<tabs[3]>>
    /\ HookIndexes(log, "onDeactivate", tabs[1]) # {}
    /\ HookIndexes(log, "onActivate", tabs[3]) # {}

\* --------------------------------------------------------------------- C20
\* C20: addTab and addTabs append their argument to the registry and no
\* other operation changes the registry; display creates one button per
\* registered page, in registry order, labelled with the page's name.
C20_AppendOnlyRegistry ==
    [][/\ lastOp'.op = "addTab" => tabs' = tabs \o lastOp'.arg
       /\ lastOp'.op = "addTabs" => tabs' = tabs \o lastOp'.arg
       /\ lastOp'.op \notin {"addTab", "addTabs"} => tabs' = tabs
       /\ (lastOp'.op = "display" /\ error' = "none") =>
            /\ Len(tabContainer'.children) = Len(tabs)
            /\ \A i \in 1 .. Len(tabs) :
                  /\ tabContainer'.children[i].text = PageName(tabs[i])
                  /\ tabContainer'.children[i].tab = tabs[i]]_vars

C20_Witness ==
    /\ lastOp.op = "addTabs"
    /\ Len(lastOp.arg) = 2
    /\ Len(tabs) = 3
    /\ tabs[1] # tabs[2]
    /\ tabs[2] = lastOp.arg[1]
    /\ tabs[3] = lastOp.arg[2]
    /\ tabs[2] # tabs[3]

\* ------------------------------------------ vocabulary of the setting claims
DistinctKeys(opts) ==
    \A i, j \in 1 .. Len(opts) : opts[i].key = opts[j].key => i = j

DistinctValues(opts) ==
    \A i, j \in 1 .. Len(opts) : opts[i].value = opts[j].value => i = j

HasValue(opts, v) == \E i \in 1 .. Len(opts) : opts[i].value = v

HasKey(opts, k) == \E i \in 1 .. Len(opts) : opts[i].key = k

\* The first option, in sequence order, that carries value v / key k.
FirstWithValue(opts, v) ==
    opts[CHOOSE i \in 1 .. Len(opts) :
            opts[i].value = v /\ \A j \in 1 .. i - 1 : opts[j].value # v]

FirstWithKey(opts, k) ==
    opts[CHOOSE i \in 1 .. Len(opts) :
            opts[i].key = k /\ \A j \in 1 .. i - 1 : opts[j].key # k]

ObserverCalls(es) == {i \in 1 .. Len(es) : es[i].ev = "observer"}

SetterWrites(es) == {i \in 1 .. Len(es) : es[i].ev = "set"}

\* --------------------------------------------------------------------- C12
\* C12: for a dropdown whose options have pairwise distinct keys and
\* pairwise distinct values, resolving the key of an option's value gives
\* that value back and resolving the value of an option's key gives that key
\* back; the key a display selects for a listed bound value resolves to the
\* bound value.
C12_RoundTrip ==
    (kind = "dropdown" /\ DistinctKeys(options) /\ DistinctValues(options)) =>
        /\ \A i \in 1 .. Len(options) :
              /\ getValueForKey(options, getKeyForValue(options, options[i].value))
                    = [threw |-> FALSE, value |-> options[i].value]
              /\ getKeyForValue(options, getValueForKey(options, options[i].key).value)
                    = options[i].key
        /\ (settingOp.op = "display" /\ HasValue(options, value)) =>
              getValueForKey(options, control.shown)
                    = [threw |-> FALSE, value |-> value]

C12_Witness ==
    /\ kind = "dropdown"
    /\ Len(options) = 2
    /\ DistinctKeys(options)
    /\ DistinctValues(options)
    /\ settingOp.op = "display"
    /\ value = options[2].value
    /\ control.shown = options[2].key

\* --------------------------------------------------------------------- C13
\* C13: getKeyForValue(v) is the key of the first option, in sequence order,
\* whose value equals v, also when several options carry v; the key of the
\* first option when no option carries v; the empty key when there are no
\* options.  The key a display selects is getKeyForValue of the bound value.
C13_GetKeyForValue ==
    kind = "dropdown" =>
        /\ \A v \in OptionValues \cup StaleValues :
              getKeyForValue(options, v) =
                 IF HasValue(options, v) THEN FirstWithValue(options, v).key
                 ELSE IF Len(options) > 0 THEN options[1].key
                 ELSE ""
        /\ settingOp.op = "display" =>
              control.shown =
                 IF HasValue(options, value) THEN FirstWithValue(options, value).key
                 ELSE IF Len(options) > 0 THEN options[1].key
                 ELSE ""

C13_Witness ==
    /\ kind = "dropdown"
    /\ Len(options) = 2
    /\ options[1].value = options[2].value
    /\ options[1].key # options[2].key
    /\ value = options[2].value
    /\ settingOp.op = "display"
    /\ control.shown = options[1].key

\* --------------------------------------------------------------------- C14
\* C14: a change event of a dropdown with a key that some option has commits
\* the value of the (first) option with that key; with a key no option has
\* it fails with the lookup error before any write: the bound value is
\* unchanged, the setter is not called and the observer is not invoked.
C14_UnknownKey ==
    [][(settingOp'.op = "change" /\ kind = "dropdown") =>
        IF HasKey(options, settingOp'.input)
        THEN /\ settingError' = "none"
             /\ value' = FirstWithKey(options, settingOp'.input).value
        ELSE /\ settingError' = "No option found for key"
             /\ value' = value
             /\ events' = <<>>]_vars

C14_Witness ==
    /\ kind = "dropdown"
    /\ Len(options) > 0
    /\ settingOp.op = "change"
    /\ settingOp.input = UnknownKey
    /\ onChangeCb # Undefined
    /\ settingError = "No option found for key"
    /\ value \in StaleValues
    /\ events = <<>>

\* --------------------------------------------------------------------- C15
\* C15: displaying a dropdown whose bound value no option carries selects the
\* first option in the control and writes nothing: the bound value stays the
\* stale value, the setter is not called (so nothing is saved) and the
\* observer is not invoked.  Only a change event of the control writes.
C15_StaleValueKept ==
    [][/\ (settingOp'.op = "display" /\ kind = "dropdown"
            /\ ~HasValue(options, value)) =>
            /\ value' = value
            /\ events' = <<>>
            /\ Len(options) > 0 => control'.shown = options[1].key
       /\ (kind = "dropdown" /\ value' # value) => settingOp'.op = "change"]_vars

C15_Witness ==
    /\ kind = "dropdown"
    /\ Len(options) = 2
    /\ value \in StaleValues
    /\ onChangeCb # Undefined
    /\ settingOp.op = "display"
    /\ control.exists
    /\ control.shown = options[1].key
    /\ events = <<>>

\* --------------------------------------------------------------------- C16
\* C16: for every variant a change event first writes the new value through
\* the setter and then invokes the registered observer with the value read
\* back from the getter; when the observer runs the getter returns the new
\* value.  The new value is the reported value, for a dropdown the value of
\* the option the reported key resolves to.
C16_WriteThenNotify ==
    [][(settingOp'.op = "change" /\ settingError' = "none"
            /\ onChangeCb # Undefined) =>
        LET new == IF kind = "dropdown"
                   THEN FirstWithKey(options, settingOp'.input).value
                   ELSE settingOp'.input
        IN /\ value' = new
           /\ Len(events') = 2
           /\ events'[1].ev = "set"
           /\ events'[1].arg = new
           /\ events'[2].ev = "observer"
           /\ events'[2].cb = onChangeCb
           /\ events'[2].arg = new
           /\ events'[2].seen = new]_vars

\* Slider with limits 5..300 step 5 shown at 30: a reported 35 is committed
\* and handed to the observer.
C16_Witness ==
    /\ kind = "slider"
    /\ control.limits = SliderLimits
    /\ control.shown = 30
    /\ settingOp.op = "change"
    /\ settingOp.input = 35
    /\ value = 35
    /\ Len(events) = 2
    /\ events[2].ev = "observer"
    /\ events[2].arg = 35

\* --------------------------------------------------------------------- C17
\* C17: onChange(callback) makes callback the one registered observer, in
\* place of any earlier one, and returns the binding itself; a change event
\* invokes the currently registered observer exactly once and no other, and
\* with no observer registered it commits the value and invokes nothing.
C17_SingleObserver ==
    [][/\ settingOp'.op = "onChange" =>
            /\ onChangeCb' = settingOp'.cb
            /\ settingOp'.returned = "this"
            /\ value' = value
            /\ events' = <<>>
       /\ (settingOp'.op = "change" /\ settingError' = "none") =>
            /\ Cardinality(SetterWrites(events')) = 1
            /\ \A i \in ObserverCalls(events') : events'[i].cb = onChangeCb
            /\ Cardinality(ObserverCalls(events')) =
                  IF onChangeCb = Undefined THEN 0 ELSE 1]_vars

C17_Witness ==
    /\ settingOp.op = "change"
    /\ settingOp.replaced = "f"
    /\ onChangeCb = "g"
    /\ settingError = "none"
    /\ Cardinality(ObserverCalls(events)) = 1
    /\ \A i \in ObserverCalls(events) : events[i].cb = "g"

\* --------------------------------------------------------------------- C18
\* C18: display of a text or text-area setting passes the placeholder to the
\* widget via setPlaceholder exactly when it is a non-empty string (neither
\* null nor ""), and never writes to the bound value, empty or not.
C18_Placeholder ==
    [][(settingOp'.op = "display" /\ kind \in TextKinds) =>
        /\ control'.placeholderSet = Truthy(placeholder)
        /\ Truthy(placeholder) => control'.placeholderText = placeholder.text
        /\ control'.shown = value
        /\ value' = value
        /\ events' = <<>>]_vars

\* The statement as given: every non-null placeholder is passed on.
C18_Original ==
    [][(settingOp'.op = "display" /\ kind \in TextKinds /\ ~placeholder.isNull) =>
        /\ control'.placeholderSet
        /\ control'.placeholderText = placeholder.text]_vars

C18_Witness ==
    /\ kind = "textarea"
    /\ settingOp.op = "display"
    /\ placeholder.text = "hint"
    /\ control.placeholderSet
    /\ control.placeholderText = "hint"
    /\ value = ""
    /\ control.shown = ""

\* --------------------------------------------------------------------- C19
\* C19: loadSettings leaves a settings object that takes every key of the
\* persisted object from the persisted object and every other key from the
\* defaults, and never changes the defaults object; every value setter (and
\* the reset) calls saveData once, with the whole current settings object.
C19_Persistence ==
    [][/\ defaultSettings' = DEFAULT_SETTINGS
       /\ pluginOp'.op = "loadSettings" =>
            LET persisted == IF data.present THEN data.object ELSE EmptyObject
            IN /\ DOMAIN settings' = DOMAIN persisted \cup DOMAIN DEFAULT_SETTINGS
               /\ \A k \in DOMAIN persisted : settings'[k] = persisted[k]
               /\ \A k \in DOMAIN DEFAULT_SETTINGS \ DOMAIN persisted :
                     settings'[k] = DEFAULT_SETTINGS[k]
               /\ saveCalls' = <<>>
       /\ pluginOp'.op \in {"set", "reset"} =>
            /\ saveCalls' = <<settings'>>
            /\ DOMAIN DEFAULT_SETTINGS \subseteq DOMAIN settings'
            /\ data' = [present |-> TRUE, object |-> settings']
       /\ pluginOp'.op = "set" =>
            /\ DOMAIN settings' = DOMAIN settings
            /\ \A k \in DOMAIN settings \ {pluginOp'.field} :
                  settings'[k] = settings[k]]_vars

C19_Witness ==
    /\ pluginOp.op = "set"
    /\ pluginOp.field = "theme"
    /\ "legacy" \in DOMAIN settings
    /\ settings.refreshInterval = 60
    /\ settings.theme = "light"
    /\ settings.maxItems = 100
    /\ saveCalls = <<settings>>

\* --------------------------------------------------------------------- C21
\* C21 (as amended): the activeTab reference changes only inside
\* activateTab, and a page's isActive flag changes only inside activateTab
\* or in hide, which clears the flag of the page activeTab refers to and
\* leaves activeTab alone; addTab, addTabs and a display that stops at the
\* empty-registry check change neither, and an operation runs activateTab
\* at most once (one onActivate per operation).
C21_MutationSites ==
    [][/\ activeTab' # activeTab =>
            /\ lastOp'.op \in ActivationOps
            /\ HookCount(log', "onActivate") = 1
            /\ HookIndexes(log', "onActivate", activeTab') # {}
       /\ isActive' # isActive =>
            \/ /\ lastOp'.op \in ActivationOps
               /\ HookCount(log', "onActivate") = 1
            \/ /\ lastOp'.op = "hide"
               /\ activeTab # Null
               /\ isActive' = [isActive EXCEPT ![activeTab] = FALSE]
       /\ lastOp'.op = "hide" => activeTab' = activeTab
       /\ (lastOp'.op \in {"addTab", "addTabs"} \/ error' # "none") =>
            UNCHANGED <<activeTab, isActive>>
       /\ HookCount(log', "onActivate") <= 1]_vars

\* C21 as written: nothing but activateTab changes activeTab or a flag.
C21_Original ==
    [][(activeTab' # activeTab \/ isActive' # isActive) =>
            /\ lastOp'.op \in ActivationOps
            /\ HookCount(log', "onActivate") = 1]_vars

C21_Witness ==
    /\ lastOp.op = "hide"
    /\ Len(tabs) >= 2
    /\ activeTab = tabs[2]
    /\ tabs[2] # tabs[1]
    /\ ActivePages = {}
    /\ HookIndexes(log, "onDeactivate", tabs[2]) # {}
    /\ contentContainer.children = <<tabs[2]>>

\* ------------------------------------ further vocabulary of the tab claims
DistinctPages(ts) == \A i, j \in 1 .. Len(ts) : ts[i] = ts[j] => i = j

\* The strip has one button per registered page, in registry order.
StripMatches(strip, ts) ==
    /\ strip.exists
    /\ Len(strip.children) = Len(ts)
    /\ \A i \in 1 .. Len(ts) : strip.children[i].tab = ts[i]

ActiveButtons(strip) == {i \in 1 .. Len(strip.children) : strip.children[i].active}

\* --------------------------------------------------------------------- C23
\* C23: after an activation on a rendered manager whose registry is as it was
\* at display and holds pairwise distinct pages, exactly one button carries
\* the active style, and it is the button at the active page's position.
C23_OneActiveButton ==
    (lastOp.op \in ActivationOps /\ HookCount(log, "onActivate") = 1
        /\ StripMatches(tabContainer, tabs) /\ DistinctPages(tabs)) =>
        /\ Cardinality(ActiveButtons(tabContainer)) = 1
        /\ \A i \in 1 .. Len(tabs) :
              tabContainer.children[i].active <=> tabs[i] = getActiveTab

C23_Witness ==
    /\ lastOp.op = "click"
    /\ lastOp.arg = <<3>>
    /\ Len(tabs) = 3
    /\ DistinctPages(tabs)
    /\ StripMatches(tabContainer, tabs)
    /\ ActiveButtons(tabContainer) = {3}
    /\ HookIndexes(log, "onDeactivate", tabs[1]) # {}

\* --------------------------------------------------------------------- C24
\* C24: in every state of a manager whose registry holds pairwise distinct
\* pages, a page with isActive = true is the page getActiveTab() returns.
\* (The converse fails after hide: see C24_ConverseFails.)
C24_ActiveIsActiveTab ==
    DistinctPages(tabs) =>
        \A p \in Pages : isActive[p] => p = getActiveTab

\* A state in which getActiveTab() is a page whose flag is false.
C24_ConverseFails ==
    /\ DistinctPages(tabs)
    /\ getActiveTab # Null
    /\ ~isActive[getActiveTab]

C24_Witness ==
    /\ Len(tabs) = 3
    /\ DistinctPages(tabs)
    /\ getActiveTab = tabs[2]
    /\ isActive[tabs[2]]
    /\ lastOp.op = "setActiveTab"
    /\ HookIndexes(log, "onDeactivate", tabs[3]) # {}

\* --------------------------------------------------------------------- C25
\* C25: over display, clicks, setActiveTab, setActiveTabById and hide, the
\* onActivate and onDeactivate calls on a page alternate: onDeactivate is
\* invoked only on a page whose isActive was true before the invocation,
\* and onActivate only on a page whose isActive was false before it (as it
\* is when the same operation has just deactivated the page).
C25_HookAlternation ==
    [][\A i \in 1 .. Len(log') :
        /\ log'[i].hook = "onDeactivate" =>
              /\ isActive[log'[i].page]
              /\ \A j \in 1 .. i - 1 :
                    ~(log'[j].hook = "onDeactivate" /\ log'[j].page = log'[i].page)
        /\ log'[i].hook = "onActivate" =>
              \/ ~isActive[log'[i].page]
              \/ \E j \in 1 .. i - 1 :
                    log'[j].hook = "onDeactivate" /\ log'[j].page = log'[i].page]_vars

\* --------------------------------------------------------------------- C26
\* C26: a display on a non-empty registry ends with the first registered
\* page active and no other, whatever was active before: a different page
\* that was active is deactivated (flag cleared, onDeactivate invoked) and
\* the first page is activated; the container then holds one strip with
\* exactly one button per registered page, however often display ran before.
C26_DisplayResets ==
    [][(lastOp'.op = "display" /\ error' = "none") =>
        /\ activeTab' = tabs[1]
        /\ ActiveIn(isActive') = {tabs[1]}
        /\ HookIndexes(log', "onActivate", tabs[1]) # {}
        /\ HookCount(log', "onActivate") = 1
        /\ \A A \in ActivePages \ {tabs[1]} :
              /\ ~isActive'[A]
              /\ Cardinality(HookIndexes(log', "onDeactivate", A)) = 1
        /\ containerEl' = <<TabContainerCls, ContentContainerCls>>
        /\ Len(tabContainer'.children) = Len(tabs)
        /\ \A i \in 1 .. Len(tabs) : tabContainer'.children[i].tab = tabs[i]
        /\ ActiveButtons(tabContainer') =
              {i \in 1 .. Len(tabs) : tabs[i] = tabs[1]}]_vars

C26_Witness ==
    /\ lastOp.op = "display"
    /\ error = "none"
    /\ Len(tabs) = 3
    /\ DistinctPages(tabs)
    /\ HookIndexes(log, "onDeactivate", tabs[3]) # {}
    /\ HookIndexes(log, "onActivate", tabs[1]) # {}
    /\ ActivePages = {tabs[1]}
    /\ Len(tabContainer.children) = 3
    /\ ActiveButtons(tabContainer) = {1}

C22_LoggerRegistry ==
    [][/\ \A i, j \in 1 .. Len(instances') :
            instances'[i].name = instances'[j].name => i = j
       /\ \A n \in DOMAIN loggers' :
            /\ instances'[loggers'[n]].name = n
            /\ instances'[loggers'[n]].logLevel = globalLogLevel'
       /\ loggerOp'.op = "getLogger" =>
            /\ loggerOp'.name \in DOMAIN loggers'
            /\ loggerOp'.returned = loggers'[loggerOp'.name]
            /\ \A n \in DOMAIN loggers : loggers'[n] = loggers[n]
            /\ globalLogLevel' = globalLogLevel
            /\ IF loggerOp'.name \in DOMAIN loggers
               THEN instances' = instances
               ELSE Len(instances') = Len(instances) + 1
       /\ loggerOp'.op = "setGlobalLogLevel" =>
            /\ globalLogLevel' = loggerOp'.level
            /\ loggers' = loggers
       /\ loggerOp'.op = "getGlobalLogLevel" =>
            /\ loggerOp'.returned = globalLogLevel
            /\ UNCHANGED <<loggers, instances, globalLogLevel>>]_vars

C22_Witness ==
    /\ loggerOp.op = "getLogger"
    /\ Len(instances) = 2
    /\ loggerOp.returned = 1
    /\ DOMAIN loggers = {"main", "ui"}
    /\ loggers[loggerOp.name] = 1
    /\ globalLogLevel = LogLevel.DEBUG
    /\ instances[1].logLevel = LogLevel.DEBUG
    /\ instances[2].logLevel = LogLevel.DEBUG

====
